---- MODULE Spec2Model ----
(***************************************************************************)
(* Live-refresh coordination core of disaster_check2.py.                   *)
(*                                                                         *)
(* Two execution contexts share refresh_config.json and the rendered map:  *)
(*   - the main thread: start-up, then the HTTPServer loop                 *)
(*     (server.handle_request, CustomHandler.do_GET, the heartbeat check)  *)
(*   - the daemon thread running update_map_periodically.                  *)
(* The environment supplies HTTP requests, the outcome of the GDACS fetch  *)
(* and of rendering, the wall clock read by time.time(), and termination   *)
(* signals.                                                                *)
(***************************************************************************)
EXTENDS Integers, Sequences, FiniteSets, TLC

VARIABLES
    now,             \* reading of the wall clock, time.time(), in seconds
    last_heartbeat,  \* global last_heartbeat
    config_file,     \* content of refresh_config.json
    map_file,        \* updated_all_locations_map.html: <<>> or <<radius drawn>>
    socket_open,     \* the listening socket of HTTPServer(('localhost', 8000))
    main_pc,         \* position of the main thread
    req,             \* request being serviced by do_GET
    config,          \* local dict `config` of update_refresh_interval / update_disaster_range
    forced_range,    \* <<disaster_range read by the refresh forced from do_GET>>, or <<>>
    resp,            \* what do_GET sent back for req
    sched_pc,        \* position of the update_map_periodically thread
    interval,        \* local `interval` of update_map_periodically
    disaster_range,  \* local `disaster_range` of the thread's fetch_and_update_map
    stale,           \* a radius write completed after the thread read disaster_range
    \* one call of create_map_from_locations / create_map_from_companies
    geo_pc,          \* "idle", "input", "done2" (disaster_check2) or "done1" (disaster_check)
    location,        \* the row of the data frame: [lat, lon]
    disasters_data,  \* sequence of the 'coordinates' lists of the disasters
    range_km,        \* argument disaster_range of create_map_from_locations
    in_jeopardy,     \* result of check_disaster_vicinity for the row
    markers,         \* location= of the Marker and Circle drawn for each disaster
    \* the main loop of disaster_check.py
    hourly_pc,       \* "idle", "run_pending" or "countdown"
    countdown_i,     \* loop variable `i` of the countdown
    until_due,       \* seconds until the job's next_run (0: the job is due)
    sleeps_since_refresh,  \* time.sleep(1) calls since fetch_and_update_map last ran
    jobs_run,        \* executions of the scheduled job so far
    sleeps_between,  \* sleeps_since_refresh when the scheduled job last started
    \* the page in the browser
    backlog          \* requests sent by the page and not yet accepted by the server

program_vars ==
    <<now, last_heartbeat, config_file, map_file, socket_open, main_pc, req,
      config, forced_range, resp, sched_pc, interval, disaster_range, stale>>

geo_vars == <<geo_pc, location, disasters_data, range_km, in_jeopardy, markers>>

hourly_vars ==
    <<hourly_pc, countdown_i, until_due, sleeps_since_refresh, jobs_run,
      sleeps_between>>

\* what CustomHandler.do_GET never touches
side_vars == <<geo_vars, hourly_vars>>

\* what the other steps of the live-refresh program never touch
other_vars == <<side_vars, backlog>>

vars == <<program_vars, other_vars>>

(***************************************************************************)
(* Bounds of the model and constants of the program.                       *)
(***************************************************************************)
MaxTime == 32                 \* the clock is followed up to this reading

HEARTBEAT_TIMEOUT == 30       \* `time.time() - last_heartbeat > 30`
DEFAULT_RANGE == 241          \* config.get('disaster_range', 241)
DEFAULT_INTERVAL == 3600      \* <option value="3600" selected>

\* Amounts by which the clock is seen to advance between two steps.
TimeSteps == {14, 15, 16}
\* Readings to which the system clock may be set back (time.time() is the
\* wall clock and is not monotonic).
SetBackTo == {0}

(***************************************************************************)
(* int(s) of Python on the text of a query value.                          *)
(***************************************************************************)
Digits == <<"0", "1", "2", "3", "4", "5", "6", "7", "8", "9">>

IsDigit(c) == \E i \in 1..Len(Digits) : Digits[i] = c

DigitValue(c) == (CHOOSE i \in 1..Len(Digits) : Digits[i] = c) - 1

AllDigits(s) == Len(s) > 0 /\ \A i \in 1..Len(s) : IsDigit(s[i])

RECURSIVE DecimalValue(_)
DecimalValue(s) ==
    IF Len(s) = 0 THEN 0
    ELSE 10 * DecimalValue(SubSeq(s, 1, Len(s) - 1)) + DigitValue(s[Len(s)])

HasSign(s) == Len(s) > 0 /\ s[1] \in {"-", "+"}

\* int(s) raises ValueError exactly when this is FALSE
IsIntLiteral(s) == AllDigits(IF HasSign(s) THEN Tail(s) ELSE s)

int(s) ==
    IF HasSign(s)
    THEN (IF s[1] = "-" THEN 0 - DecimalValue(Tail(s)) ELSE DecimalValue(Tail(s)))
    ELSE DecimalValue(s)

(***************************************************************************)
(* Requests.  A request is its path and its query string; a query string   *)
(* holds at most one field here.                                           *)
(***************************************************************************)
RawValues == { <<"6", "0", "0">>, <<"-", "5">>, <<"a", "b", "c">> }

NoQuery == [present |-> FALSE, field |-> "", raw |-> <<>>]

Queries == {NoQuery} \cup
           [present : {TRUE}, field : {"interval", "range"}, raw : RawValues]

Requests ==
    [path : {"/update_refresh_rate", "/update_disaster_range"}, query : Queries]
    \cup [path : {"/heartbeat", "/index.html"}, query : {NoQuery}]

NoRequest == [path |-> "", query |-> NoQuery]

\* query = parse_qs(self.path.split('?')[1]); int(query[field][0]) raises
\* IndexError (no '?'), KeyError (field missing) or ValueError (not a number)
ParseRaises(r, field) ==
    \/ ~r.query.present
    \/ r.query.field # field
    \/ ~IsIntLiteral(r.query.raw)

ParsedValue(r) == int(r.query.raw)

(***************************************************************************)
(* refresh_config.json.  open(..., 'w') truncates the file; json.dump and  *)
(* the close at the end of the `with` block put the new record in it.      *)
(***************************************************************************)
Truncated == [truncated |-> TRUE]

NoConfig == [none |-> TRUE]

\* json.load(f) succeeds
IsJson(f) == "refresh_interval" \in DOMAIN f

InitialConfigs ==
    { [refresh_interval |-> DEFAULT_INTERVAL],
      [refresh_interval |-> DEFAULT_INTERVAL, disaster_range |-> DEFAULT_RANGE] }

get_refresh_interval(f) == f.refresh_interval

\* the radius falls back to the default whatever the file holds
get_disaster_range_ignoring_file(f) == DEFAULT_RANGE

get_disaster_range(f) ==
    IF "disaster_range" \in DOMAIN f THEN f.disaster_range ELSE DEFAULT_RANGE

\* the record written holds the updated key alone
SetKeyDroppingOthers(f, key, value) == [k \in {key} |-> value]

\* config[key] = value on the dict loaded from the file
SetKey(f, key, value) ==
    [k \in DOMAIN f \cup {key} |-> IF k = key THEN value ELSE f[k]]

(***************************************************************************)
(* Heartbeat watchdog.                                                     *)
(***************************************************************************)
\* expiry declared already at the timeout
ExpiredAtTimeout(t, last) == t - last >= HEARTBEAT_TIMEOUT

Expired(t, last) == t - last > HEARTBEAT_TIMEOUT

\* the process is running with both threads started
Running == main_pc \in {"accept", "rate_dump", "range_dump", "forced_refresh", "check"}

Exited == main_pc \in {"exit_watchdog", "exit_signal"}

(***************************************************************************)
(* Initial state: the interpreter is about to run the __main__ block.      *)
(***************************************************************************)
ProgramInit ==
    /\ now = 0
    /\ last_heartbeat = 0
    /\ config_file \in InitialConfigs
    /\ map_file = <<>>
    /\ socket_open = FALSE
    /\ main_pc = "start"
    /\ req = NoRequest
    /\ config = NoConfig
    /\ forced_range = <<>>
    /\ resp = "none"
    /\ sched_pc = "not_started"
    /\ interval = 0
    /\ disaster_range = 0
    /\ stale = FALSE

GeoIdle ==
    /\ geo_pc = "idle"
    /\ location = [lat |-> 0, lon |-> 0]
    /\ disasters_data = <<>>
    /\ range_km = 0
    /\ in_jeopardy = FALSE
    /\ markers = <<>>

HourlyIdle ==
    /\ hourly_pc = "idle"
    /\ countdown_i = 0
    /\ until_due = 0
    /\ sleeps_since_refresh = 0
    /\ jobs_run = 0
    /\ sleeps_between = 0

Init == ProgramInit /\ GeoIdle /\ HourlyIdle /\ backlog = <<>>

(***************************************************************************)
(* Main thread: start-up (lines 313-338).  The initial fetch_and_update_map *)
(* returns None when the fetch, the location load or the rendering raises; *)
(* the `if initial_map_path:` block is then skipped and the program ends.  *)
(***************************************************************************)
MainStart ==
    /\ main_pc = "start"
    /\ \E ok \in BOOLEAN :
         IF ok
         THEN /\ map_file' = <<get_disaster_range(config_file)>>
              /\ sched_pc' = "get_interval"
              /\ socket_open' = TRUE
              /\ last_heartbeat' = now
              /\ main_pc' = "accept"
         ELSE /\ main_pc' = "ended"
              /\ UNCHANGED <<map_file, sched_pc, socket_open, last_heartbeat>>
    /\ UNCHANGED <<now, config_file, req, config, forced_range, resp,
                   interval, disaster_range, stale>>
    /\ UNCHANGED other_vars

(***************************************************************************)
(* server.handle_request() returns from its wait with request r and runs   *)
(* CustomHandler.do_GET up to its first write to the file system.          *)
(* An exception raised in do_GET is caught by handle_request               *)
(* (socketserver's handle_error), which closes the connection: nothing is  *)
(* sent back.                                                              *)
(***************************************************************************)
\* update_refresh_interval / update_disaster_range up to open(..., 'w')
BeginUpdate(key, value, next_pc) ==
    /\ config' = SetKey(config_file, key, value)
    /\ config_file' = Truncated
    /\ main_pc' = next_pc
    /\ UNCHANGED <<resp, last_heartbeat>>

Dropped ==
    /\ resp' = "dropped"
    /\ main_pc' = "check"
    /\ UNCHANGED <<config, config_file, last_heartbeat>>

do_GET(r) ==
    /\ main_pc = "accept"
    /\ req' = r
    /\ IF r.path = "/update_refresh_rate"
       THEN IF ParseRaises(r, "interval")
            THEN Dropped
            ELSE BeginUpdate("refresh_interval", ParsedValue(r), "rate_dump")
       ELSE IF r.path = "/update_disaster_range"
       THEN IF ParseRaises(r, "range")
            THEN Dropped
            ELSE BeginUpdate("disaster_range", ParsedValue(r), "range_dump")
       ELSE IF r.path = "/heartbeat"
       THEN /\ last_heartbeat' = now
            /\ resp' = "200"
            /\ main_pc' = "check"
            /\ UNCHANGED <<config, config_file>>
       ELSE \* super().do_GET(): static file serving
            /\ resp' = "static"
            /\ main_pc' = "check"
            /\ UNCHANGED <<config, config_file, last_heartbeat>>
    /\ UNCHANGED <<now, map_file, socket_open, forced_range, sched_pc, interval,
                   disaster_range, stale>>
    /\ UNCHANGED side_vars

\* update_refresh_interval: json.dump and close, then the 200 response
RateDump ==
    /\ main_pc = "rate_dump"
    /\ config_file' = config
    /\ config' = NoConfig
    /\ resp' = "200"
    /\ main_pc' = "check"
    /\ UNCHANGED <<now, last_heartbeat, map_file, socket_open, req, forced_range,
                   sched_pc, interval, disaster_range, stale>>
    /\ UNCHANGED other_vars

\* update_disaster_range: json.dump and close
RangeDump ==
    /\ main_pc = "range_dump"
    /\ config_file' = config
    /\ config' = NoConfig
    /\ stale' = (sched_pc = "render")
    /\ main_pc' = "forced_refresh"
    /\ UNCHANGED <<now, last_heartbeat, map_file, socket_open, req, forced_range,
                   resp, sched_pc, interval, disaster_range>>
    /\ UNCHANGED other_vars

\* fetch_and_update_map('locations.csv') called from do_GET, then the 200
\* response.  The fetch or the location load may raise before the radius is
\* read; rendering may raise (or find no locations) before the map is saved.
ForcedRefresh ==
    /\ main_pc = "forced_refresh"
    /\ \E outcome \in {"fetch_error", "render_error", "saved"} :
         /\ forced_range' = IF outcome = "fetch_error" THEN <<>>
                            ELSE <<get_disaster_range(config_file)>>
         /\ map_file' = IF outcome = "saved"
                        THEN <<get_disaster_range(config_file)>>
                        ELSE map_file
    /\ resp' = "200"
    /\ main_pc' = "check"
    /\ UNCHANGED <<now, last_heartbeat, config_file, socket_open, req, config,
                   sched_pc, interval, disaster_range, stale>>
    /\ UNCHANGED other_vars

\* `if time.time() - last_heartbeat > 30: break`, then os._exit(0)
HeartbeatCheck ==
    /\ main_pc = "check"
    /\ main_pc' = IF Expired(now, last_heartbeat) THEN "exit_watchdog" ELSE "accept"
    /\ req' = NoRequest
    /\ forced_range' = <<>>
    /\ resp' = "none"
    /\ UNCHANGED <<now, last_heartbeat, config_file, map_file, socket_open, config,
                   sched_pc, interval, disaster_range, stale>>
    /\ UNCHANGED other_vars

\* signal_handler: os._exit(0)
signal_handler ==
    /\ Running
    /\ main_pc' = "exit_signal"
    /\ UNCHANGED <<now, last_heartbeat, config_file, map_file, socket_open, req,
                   config, forced_range, resp, sched_pc, interval, disaster_range,
                   stale>>
    /\ UNCHANGED other_vars

(***************************************************************************)
(* The daemon thread: update_map_periodically (lines 269-274) with the     *)
(* body of fetch_and_update_map (lines 229-243) inlined.  Everything       *)
(* inside fetch_and_update_map runs under its try/except; line 271 and     *)
(* line 274 do not.                                                        *)
(***************************************************************************)
\* line 271: interval = get_refresh_interval(); json.load raises on a
\* truncated file and nothing catches it: the thread ends
SchedGetInterval ==
    /\ Running
    /\ sched_pc = "get_interval"
    /\ IF IsJson(config_file)
       THEN /\ interval' = get_refresh_interval(config_file)
            /\ sched_pc' = "fetch"
       ELSE /\ sched_pc' = "dead"
            /\ UNCHANGED interval
    /\ UNCHANGED <<now, last_heartbeat, config_file, map_file, socket_open, main_pc,
                   req, config, forced_range, resp, disaster_range, stale>>
    /\ UNCHANGED other_vars

\* lines 232-236: GDACS fetch, extract_disaster_info, load_locations_from_csv;
\* an exception is caught at line 241 and the tick ends
SchedFetch ==
    /\ Running
    /\ sched_pc = "fetch"
    /\ \E ok \in BOOLEAN : sched_pc' = IF ok THEN "get_range" ELSE "sleep"
    /\ UNCHANGED <<now, last_heartbeat, config_file, map_file, socket_open, main_pc,
                   req, config, forced_range, resp, interval, disaster_range, stale>>
    /\ UNCHANGED other_vars

\* line 237: disaster_range = get_disaster_range(), inside the try
SchedGetRange ==
    /\ Running
    /\ sched_pc = "get_range"
    /\ IF IsJson(config_file)
       THEN /\ disaster_range' = get_disaster_range(config_file)
            /\ sched_pc' = "render"
       ELSE /\ sched_pc' = "sleep"
            /\ UNCHANGED disaster_range
    /\ stale' = FALSE
    /\ UNCHANGED <<now, last_heartbeat, config_file, map_file, socket_open, main_pc,
                   req, config, forced_range, resp, interval>>
    /\ UNCHANGED other_vars

\* line 238: create_map_from_locations; it reads the refresh interval again
\* (line 104) and saves the map (line 210) unless something raised before
SchedRender ==
    /\ Running
    /\ sched_pc = "render"
    /\ \E ok \in BOOLEAN :
         map_file' = IF ok /\ IsJson(config_file) THEN <<disaster_range>> ELSE map_file
    /\ disaster_range' = 0
    /\ stale' = FALSE
    /\ sched_pc' = "sleep"
    /\ UNCHANGED <<now, last_heartbeat, config_file, socket_open, main_pc, req,
                   config, forced_range, resp, interval>>
    /\ UNCHANGED other_vars

\* line 274: time.sleep(interval); a negative argument raises ValueError,
\* which nothing catches
SchedSleep ==
    /\ Running
    /\ sched_pc = "sleep"
    /\ sched_pc' = IF interval < 0 THEN "dead" ELSE "sleeping"
    /\ UNCHANGED <<now, last_heartbeat, config_file, map_file, socket_open, main_pc,
                   req, config, forced_range, resp, interval, disaster_range, stale>>
    /\ UNCHANGED other_vars

\* the sleep of `interval` seconds is over (time.sleep runs on the monotonic
\* clock, which the model does not follow)
SchedWake ==
    /\ Running
    /\ sched_pc = "sleeping"
    /\ sched_pc' = "get_interval"
    /\ interval' = 0
    /\ UNCHANGED <<now, last_heartbeat, config_file, map_file, socket_open, main_pc,
                   req, config, forced_range, resp, disaster_range, stale>>
    /\ UNCHANGED other_vars

(***************************************************************************)
(* The wall clock.                                                         *)
(***************************************************************************)
Tick ==
    /\ Running
    /\ \E d \in TimeSteps : now + d <= MaxTime /\ now' = now + d
    /\ UNCHANGED <<last_heartbeat, config_file, map_file, socket_open, main_pc, req,
                   config, forced_range, resp, sched_pc, interval, disaster_range,
                   stale>>
    /\ UNCHANGED other_vars

ClockSetBack ==
    /\ Running
    /\ \E t \in SetBackTo : t < now /\ now' = t
    /\ UNCHANGED <<last_heartbeat, config_file, map_file, socket_open, main_pc, req,
                   config, forced_range, resp, sched_pc, interval, disaster_range,
                   stale>>
    /\ UNCHANGED other_vars

MainStep == RateDump \/ RangeDump \/ ForcedRefresh \/ HeartbeatCheck

SchedStep ==
    \/ SchedGetInterval
    \/ SchedFetch
    \/ SchedGetRange
    \/ SchedRender
    \/ SchedSleep
    \/ SchedWake

\* server.handle_request() accepts a request, whichever the environment sends
handle_request == \E r \in Requests : do_GET(r) /\ UNCHANGED backlog

Next ==
    \/ MainStart
    \/ handle_request
    \/ RateDump
    \/ RangeDump
    \/ ForcedRefresh
    \/ HeartbeatCheck
    \/ signal_handler
    \/ SchedGetInterval
    \/ SchedFetch
    \/ SchedGetRange
    \/ SchedRender
    \/ SchedSleep
    \/ SchedWake
    \/ Tick
    \/ ClockSetBack

Spec == Init /\ [][Next]_vars

\* Both threads keep running while the process lives and time passes; the
\* arrival of a request, a signal and a clock adjustment are up to the
\* environment.
FairSpec ==
    /\ Init
    /\ [][Next]_vars
    /\ WF_vars(MainStart)
    /\ WF_vars(MainStep)
    /\ WF_vars(SchedStep)
    /\ WF_vars(Tick)

(***************************************************************************)
(* Proximity: haversine, check_disaster_vicinity and the drawing of the    *)
(* disasters, in disaster_check2.py and in disaster_check.py.              *)
(*                                                                         *)
(* Coordinates are multiples of 90 degrees, where the trigonometry of      *)
(* haversine is exact: 2*sin(x/2)**2 and cos(x) are integers, `a` is 0,    *)
(* 1/2 or 1 and c = 2*atan2(sqrt(a), sqrt(1-a)) is 0, pi/2 or pi.          *)
(* Distances are in metres, rounded down.                                  *)
(***************************************************************************)
MaxDisasters == 2                      \* length of disasters_data

EARTH_QUARTER_ARC_M == 10018696        \* R * pi / 2 with R = 6378.1 km
FIXED_RANGE_KM == 241                  \* `if distance <= 241` of disaster_check.py

Degrees == {-90, 0, 90}

Ranges == {-5, 0, 241, 15000}

\* 2 * math.sin(math.radians(x) / 2) ** 2
TwiceSinHalfSquared(x) ==
    CASE x % 360 = 0 -> 0
      [] x % 360 = 90 -> 1
      [] x % 360 = 180 -> 2
      [] x % 360 = 270 -> 1

\* math.cos(math.radians(x))
Cos(x) ==
    CASE x % 360 = 0 -> 1
      [] x % 360 = 90 -> 0
      [] x % 360 = 180 -> 0 - 1
      [] x % 360 = 270 -> 0

\* haversine(lat1, lon1, lat2, lon2) in metres; twice_a is 2 * a and the
\* central angle c is twice_a quarter turns
haversine(lat1, lon1, lat2, lon2) ==
    LET twice_a == TwiceSinHalfSquared(lat2 - lat1)
                   + Cos(lat1) * Cos(lat2) * TwiceSinHalfSquared(lon2 - lon1)
    IN  twice_a * EARTH_QUARTER_ARC_M

\* `distance <= disaster_range` with the distance in metres and the range in km
WithinRange(distance_m, range) == distance_m <= range * 1000

\* the loop gives its verdict on the first disaster alone
RECURSIVE check_first_disaster_only(_, _, _, _)
check_first_disaster_only(company_lat, company_lon, data, range) ==
    IF data = <<>> THEN FALSE
    ELSE WithinRange(haversine(company_lat, company_lon, Head(data)[1], Head(data)[2]),
                     range)

\* disaster_check2.py: the loop returns True at the first disaster in range;
\* disaster_lat, disaster_lon = disaster['coordinates']
RECURSIVE check_disaster_vicinity(_, _, _, _)
check_disaster_vicinity(company_lat, company_lon, data, range) ==
    IF data = <<>> THEN FALSE
    ELSE LET disaster_lat == Head(data)[1]
             disaster_lon == Head(data)[2]
             distance == haversine(company_lat, company_lon, disaster_lat, disaster_lon)
         IN  IF WithinRange(distance, range)
             THEN TRUE
             ELSE check_disaster_vicinity(company_lat, company_lon, Tail(data), range)

\* disaster_check.py: the loop goes through every disaster and raises a flag
RECURSIVE VicinityLoop(_, _, _, _)
VicinityLoop(company_lat, company_lon, data, flag) ==
    IF data = <<>> THEN flag
    ELSE LET disaster_lat == Head(data)[1]
             disaster_lon == Head(data)[2]
             distance == haversine(company_lat, company_lon, disaster_lat, disaster_lon)
         IN  VicinityLoop(company_lat, company_lon, Tail(data),
                          IF WithinRange(distance, FIXED_RANGE_KM) THEN TRUE ELSE flag)

check_disaster_vicinity_241(company_lat, company_lon, data) ==
    VicinityLoop(company_lat, company_lon, data, FALSE)

\* location=disaster['coordinates'][::-1] of folium.Marker and folium.Circle,
\* which folium reads as [latitude, longitude]
MarkerLocation(coordinates) == [lat |-> coordinates[2], lon |-> coordinates[1]]

DrawDisasters(data) == [i \in 1..Len(data) |-> MarkerLocation(data[i])]

CoordinateLists == {<<x, y>> : x \in Degrees, y \in Degrees}

DisasterLists == UNION {[1..n -> CoordinateLists] : n \in 0..MaxDisasters}

GeoInit ==
    /\ ProgramInit
    /\ HourlyIdle
    /\ backlog = <<>>
    /\ geo_pc = "input"
    /\ location \in [lat : Degrees, lon : Degrees]
    /\ disasters_data \in DisasterLists
    /\ range_km \in Ranges
    /\ in_jeopardy = FALSE
    /\ markers = <<>>

\* disaster_check2.py, one row, include_disasters=True
create_map_from_locations ==
    /\ geo_pc = "input"
    /\ in_jeopardy' = check_disaster_vicinity(location.lat, location.lon,
                                              disasters_data, range_km)
    /\ markers' = DrawDisasters(disasters_data)
    /\ geo_pc' = "done2"
    /\ UNCHANGED <<location, disasters_data, range_km>>
    /\ UNCHANGED <<program_vars, hourly_vars, backlog>>

\* disaster_check.py, one row, include_disasters=True
create_map_from_companies ==
    /\ geo_pc = "input"
    /\ in_jeopardy' = check_disaster_vicinity_241(location.lat, location.lon,
                                                  disasters_data)
    /\ markers' = DrawDisasters(disasters_data)
    /\ geo_pc' = "done1"
    /\ UNCHANGED <<location, disasters_data, range_km>>
    /\ UNCHANGED <<program_vars, hourly_vars, backlog>>

GeoNext == create_map_from_locations \/ create_map_from_companies

GeoSpec == GeoInit /\ [][GeoNext]_vars

(***************************************************************************)
(* The main loop of disaster_check.py (lines 113-125): the initial         *)
(* display, schedule.every().hour.do(fetch_and_update_map, ...), then      *)
(* forever schedule.run_pending() followed by a countdown of one-second    *)
(* sleeps.  Time is counted in sleeps: printing and the job itself take    *)
(* none, and the job is due HOUR_SECONDS after it was scheduled or last    *)
(* run.                                                                    *)
(***************************************************************************)
MaxJobs == 2                  \* executions of the scheduled job that are followed

HOUR_SECONDS == 3600          \* schedule.every().hour
COUNTDOWN_FROM == 7200        \* `for i in range(7200, 0, -1)`

HourlyInit ==
    /\ ProgramInit
    /\ GeoIdle
    /\ backlog = <<>>
    /\ hourly_pc = "run_pending"
    /\ countdown_i = 0
    /\ until_due = HOUR_SECONDS
    /\ sleeps_since_refresh = 0
    /\ jobs_run = 0
    /\ sleeps_between = 0

\* schedule.run_pending(): runs the job when it is due, which schedules its
\* next run an hour later; then the for loop is entered
run_pending ==
    /\ hourly_pc = "run_pending"
    /\ jobs_run < MaxJobs
    /\ IF until_due = 0
       THEN /\ jobs_run' = jobs_run + 1
            /\ sleeps_between' = sleeps_since_refresh
            /\ sleeps_since_refresh' = 0
            /\ until_due' = HOUR_SECONDS
       ELSE UNCHANGED <<jobs_run, sleeps_between, sleeps_since_refresh, until_due>>
    /\ countdown_i' = COUNTDOWN_FROM
    /\ hourly_pc' = "countdown"
    /\ UNCHANGED <<program_vars, geo_vars, backlog>>

\* one iteration of the for loop: the countdown line and time.sleep(1)
countdown_sleep ==
    /\ hourly_pc = "countdown"
    /\ sleeps_since_refresh' = sleeps_since_refresh + 1
    /\ until_due' = IF until_due > 0 THEN until_due - 1 ELSE 0
    /\ IF countdown_i > 1
       THEN /\ countdown_i' = countdown_i - 1
            /\ hourly_pc' = "countdown"
       ELSE /\ countdown_i' = 0
            /\ hourly_pc' = "run_pending"
    /\ UNCHANGED <<jobs_run, sleeps_between>>
    /\ UNCHANGED <<program_vars, geo_vars, backlog>>

HourlyNext == run_pending \/ countdown_sleep

HourlySpec == HourlyInit /\ [][HourlyNext]_vars

(***************************************************************************)
(* The page in the browser (script of lines 143-205) and the program.      *)
(* The page calls sendHeartbeat every 5 seconds and sends an update when   *)
(* the user picks an option of one of its two selects.  What it sends      *)
(* waits in the backlog of the listening socket until the main thread is   *)
(* back in server.handle_request().  Time passes while the main thread     *)
(* waits: for a request, or for the network inside the forced refresh.     *)
(***************************************************************************)
MaxClientTime == 40           \* the clock is followed up to this reading
MaxBacklog == 8               \* requests waiting in the backlog

HEARTBEAT_PERIOD == 5         \* setInterval(sendHeartbeat, 5000)

Heartbeat == [path |-> "/heartbeat", query |-> NoQuery]

\* the option "600" of the select `refresh-rate`
RateChange ==
    [path |-> "/update_refresh_rate",
     query |-> [present |-> TRUE, field |-> "interval", raw |-> <<"6", "0", "0">>]]

\* the option "600" of the select `disaster-range`
RangeChange ==
    [path |-> "/update_disaster_range",
     query |-> [present |-> TRUE, field |-> "range", raw |-> <<"6", "0", "0">>]]

Queued(r) == \E n \in 1..Len(backlog) : backlog[n] = r

Waiting ==
    \/ main_pc = "accept" /\ backlog = <<>>
    \/ main_pc = "forced_refresh"

\* five seconds pass and the timer of the page fires
sendHeartbeat ==
    /\ Waiting
    /\ now + HEARTBEAT_PERIOD <= MaxClientTime
    /\ Len(backlog) < MaxBacklog
    /\ now' = now + HEARTBEAT_PERIOD
    /\ backlog' = Append(backlog, Heartbeat)
    /\ UNCHANGED <<last_heartbeat, config_file, map_file, socket_open, main_pc, req,
                   config, forced_range, resp, sched_pc, interval, disaster_range,
                   stale>>
    /\ UNCHANGED side_vars

\* fetch(...) of the page: the request joins the backlog
Send(r) ==
    /\ ~Queued(r)
    /\ Len(backlog) < MaxBacklog
    /\ backlog' = Append(backlog, r)
    /\ UNCHANGED program_vars
    /\ UNCHANGED side_vars

setRefreshInterval ==
    /\ Running
    /\ Send(RateChange)

updateDisasterRange ==
    /\ Running
    /\ Send(RangeChange)

\* server.handle_request() takes the oldest waiting request
accept_request ==
    /\ backlog # <<>>
    /\ do_GET(Head(backlog))
    /\ backlog' = Tail(backlog)

ClientNext ==
    \/ MainStart
    \/ sendHeartbeat
    \/ setRefreshInterval
    \/ updateDisasterRange
    \/ accept_request
    \/ RateDump
    \/ RangeDump
    \/ ForcedRefresh
    \/ HeartbeatCheck
    \/ SchedGetInterval
    \/ SchedFetch
    \/ SchedGetRange
    \/ SchedRender
    \/ SchedSleep
    \/ SchedWake

ClientSpec == Init /\ [][ClientNext]_vars

(***************************************************************************)
(* Properties.                                                             *)
(***************************************************************************)
IsRangeRequest(r) == r.path = "/update_disaster_range" /\ ~ParseRaises(r, "range")

\* a control request whose parameter cannot be parsed
Malformed(r) ==
    \/ r.path = "/update_refresh_rate" /\ ParseRaises(r, "interval")
    \/ r.path = "/update_disaster_range" /\ ParseRaises(r, "range")

\* the 200 response of a valid /update_disaster_range request has been sent
RangeAcknowledged ==
    main_pc = "check" /\ IsRangeRequest(req) /\ resp = "200"

StoredRange == IF "disaster_range" \in DOMAIN config_file
               THEN config_file.disaster_range
               ELSE DEFAULT_RANGE

\* the thread's refresh read its radius after the last completed radius write
NoStaleRead ==
    (sched_pc = "render" /\ ~stale /\ IsJson(config_file))
        => disaster_range = StoredRange

C2_ReadsAreNeverTorn ==
    [][(sched_pc \in {"get_interval", "get_range"} /\ sched_pc' # sched_pc)
          => IsJson(config_file)]_vars

\* C3: the stored refresh interval and the stored hazard radius are positive
\* after any sequence of requests.
C3_StoredValuesPositive ==
    IsJson(config_file) =>
        /\ config_file.refresh_interval > 0
        /\ StoredRange > 0

\* C4: while the server waits for a request with more than 30 seconds gone
\* since last_heartbeat, the main thread has a step of its own to take (the
\* tick that evaluates the watchdog): shutting down does not depend on
\* another request arriving.
C4_WatchdogRunsWithoutRequest ==
    (main_pc = "accept" /\ Expired(now, last_heartbeat)) => ENABLED MainStep

\* C5: the scheduler thread never terminates because of a failed tick.
C5_SchedulerNeverDies == sched_pc # "dead"

\* C6: a control request with a malformed parameter is answered with a
\* client-error response.
C6_MalformedGetsClientError ==
    (main_pc = "check" /\ Malformed(req)) => resp = "4xx"

\* C7: last_heartbeat never moves backward.
C7_HeartbeatMonotonic == [][last_heartbeat' >= last_heartbeat]_vars

\* C8: when a sleep starts, its length is the refresh interval held in the
\* config store at that moment.
C8_SleepUsesStoredInterval ==
    [][(sched_pc = "sleep" /\ sched_pc' = "sleeping" /\ IsJson(config_file))
          => interval = config_file.refresh_interval]_vars

\* C9: the check made after a serviced request shuts the process down if and
\* only if now - last_heartbeat > 30 at that check, and the watchdog exit is
\* reached from that check only.
C9_ExpiryIffOverTimeout ==
    [][/\ (main_pc = "check" /\ main_pc' \in {"accept", "exit_watchdog"}) =>
            (main_pc' = "exit_watchdog" <=> now - last_heartbeat > HEARTBEAT_TIMEOUT)
       /\ (main_pc # "exit_watchdog" /\ main_pc' = "exit_watchdog") =>
            (main_pc = "check" /\ now - last_heartbeat > HEARTBEAT_TIMEOUT)]_vars

C9_Witness ==
    /\ main_pc = "exit_watchdog"
    /\ now - last_heartbeat = HEARTBEAT_TIMEOUT + 1

\* C10: the process has exited only with the listening socket released and
\* the scheduler thread no longer running.
C10_OrderlyShutdown ==
    Exited => (~socket_open /\ sched_pc \in {"not_started", "dead"})

\* C11: the process terminates only through signal_handler or through the
\* watchdog exit; no failure, the failed initial refresh included, ends it.
C11_TerminatesOnlyBySignalOrWatchdog ==
    main_pc \in {"ended", "exit_watchdog", "exit_signal"} => Exited

RangeOf(f) == IF "disaster_range" \in DOMAIN f THEN f.disaster_range ELSE DEFAULT_RANGE

IsRateRequest(r) == r.path = "/update_refresh_rate" /\ ~ParseRaises(r, "interval")

\* C12: servicing a valid /update_refresh_rate request puts the new interval
\* in the store and changes nothing else: the stored radius, last_heartbeat
\* and the map are as before, the main thread runs no refresh (it goes from
\* the write straight to the response) and the scheduler thread is not
\* touched.
C12_RateUpdateChangesIntervalOnly ==
    [][/\ (main_pc = "accept" /\ main_pc' = "rate_dump") =>
            /\ config'.refresh_interval = ParsedValue(req')
            /\ RangeOf(config') = RangeOf(config_file)
            /\ last_heartbeat' = last_heartbeat
            /\ map_file' = map_file
            /\ forced_range' = <<>>
            /\ sched_pc' = sched_pc
       /\ (main_pc = "rate_dump" /\ main_pc' = "rate_dump") =>
            /\ config' = config
            /\ last_heartbeat' = last_heartbeat
       /\ (main_pc = "rate_dump" /\ main_pc' # "rate_dump") =>
            /\ main_pc' \in {"check", "exit_signal"}
            /\ main_pc' = "check" =>
                  /\ IsJson(config_file')
                  /\ config_file'.refresh_interval = ParsedValue(req)
                  /\ RangeOf(config_file') = RangeOf(config)
                  /\ last_heartbeat' = last_heartbeat
                  /\ map_file' = map_file
                  /\ forced_range' = <<>>
                  /\ sched_pc' = sched_pc
                  /\ resp' = "200"]_vars

C12_Witness ==
    /\ main_pc = "check"
    /\ IsRateRequest(req)
    /\ resp = "200"
    /\ IsJson(config_file)
    /\ config_file.refresh_interval = 600
    /\ RangeOf(config_file) = 600
    /\ last_heartbeat = 14
    /\ map_file = <<600>>

\* C16: once the map shows the stored radius it keeps showing it for as long
\* as the stored radius is not updated: no tick of the scheduler thread that
\* read an older radius saves its map after the forced refresh.
C16_MapKeepsAcknowledgedRadius ==
    [][(/\ IsJson(config_file)
        /\ RangeOf(config_file) > 0
        /\ config_file' = config_file
        /\ map_file = <<RangeOf(config_file)>>)
          => map_file' = map_file]_vars

\* the radius a finished call compared the distances with
RangeUsed == IF geo_pc = "done1" THEN FIXED_RANGE_KM ELSE range_km

\* distances from the row to the disasters, each 'coordinates' list read as
\* the function reads it
Distances ==
    {haversine(location.lat, location.lon, disasters_data[i][1], disasters_data[i][2]) :
        i \in 1..Len(disasters_data)}

Minimum(S) == CHOOSE m \in S : \A x \in S : m <= x

Reversed(q) == [i \in 1..Len(q) |-> q[Len(q) + 1 - i]]

\* C13: the vicinity check is true iff the least distance from the location
\* to a disaster is <= the radius (a distance equal to the radius counts),
\* false for no disaster, and the same for the disasters in another order.
C13_JeopardyIffMinimumWithinRange ==
    geo_pc \in {"done1", "done2"} =>
        /\ in_jeopardy <=> /\ disasters_data # <<>>
                           /\ Minimum(Distances) <= RangeUsed * 1000
        /\ geo_pc = "done2" =>
              in_jeopardy = check_disaster_vicinity(location.lat, location.lon,
                                Reversed(disasters_data), range_km)
        /\ geo_pc = "done1" =>
              in_jeopardy = check_disaster_vicinity_241(location.lat, location.lon,
                                Reversed(disasters_data))

\* the second of two disasters decides, at a distance equal to the radius
C13_Witness ==
    /\ geo_pc = "done2"
    /\ Len(disasters_data) = 2
    /\ range_km = 0
    /\ haversine(location.lat, location.lon, disasters_data[1][1], disasters_data[1][2]) > 0
    /\ haversine(location.lat, location.lon, disasters_data[2][1], disasters_data[2][2]) = 0
    /\ in_jeopardy

\* C17: the point check_disaster_vicinity passes to haversine for a disaster
\* is the point where its marker and circle are drawn, so that a location is
\* in jeopardy exactly when it lies in the drawn circle of some disaster.
C17_CheckedPointIsDrawnPoint ==
    geo_pc \in {"done1", "done2"} =>
        /\ \A i \in 1..Len(disasters_data) :
              [lat |-> disasters_data[i][1], lon |-> disasters_data[i][2]] = markers[i]
        /\ in_jeopardy <=>
              \E i \in 1..Len(markers) :
                  haversine(location.lat, location.lon, markers[i].lat, markers[i].lon)
                      <= RangeUsed * 1000

\* C14: the main loop of disaster_check.py refreshes the map once every hour:
\* fetch_and_update_map never waits through more than 3600 one-second sleeps,
\* and each execution of the scheduled job starts exactly 3600 sleeps after
\* the refresh before it.
C14_RefreshEveryHour ==
    /\ sleeps_since_refresh <= HOUR_SECONDS
    /\ jobs_run >= 1 => sleeps_between = HOUR_SECONDS

\* C15: with a page that sends /heartbeat every 5 seconds, no check of the
\* watchdog finds the last heartbeat more than 30 seconds old, the check that
\* follows the forced refresh of /update_disaster_range included.
C15_HeartbeatingClientKeepsServerUp ==
    main_pc = "check" => ~Expired(now, last_heartbeat)

====
